---- MODULE Spec2Model ----
(***************************************************************************)
(* A model of the pull-request tracker of pullpal: the in-memory store of  *)
(* pr-tracker.ts (trackPR, updatePRStatus, removePR, syncWithGitHub), the  *)
(* webhook handlers of github-webhook.ts that feed it, and the GitHub      *)
(* repository they observe.                                                *)
(*                                                                         *)
(* Node runs the program on one thread: a handler runs without             *)
(* interruption up to its first await of a network call.  Every action     *)
(* below is one such uninterrupted segment.  `await trackPR(..)` and       *)
(* `await removePR(..)` wait for a promise that is already resolved, and   *)
(* only segments chained on the same I/O callback can run in between; the  *)
(* webhook handlers and the reconciliation resume from different I/O       *)
(* callbacks, so those awaits do not split a segment.                      *)
(*                                                                         *)
(* Objects are functions from field names to values; a field that is not   *)
(* set (undefined) is not in the DOMAIN.  Dates are milliseconds.          *)
(***************************************************************************)
EXTENDS Integers, Sequences, FiniteSets, TLC

\* ---------------------------------------------------------------- bounds
MaxPR == 2          \* pull request numbers are 1..MaxPR
MaxClock == 1       \* repository events and clock ticks after the process starts
MaxCount == 3       \* largest reviewCount the direct calls of SpecApi build

\* ------------------------------------------------------------- constants
Hour == 3600000     \* 1000 * 60 * 60
PerPage == 100      \* per_page of octokit.pulls.list
ClosedPerPage == 50 \* per_page of the closed list of getPRMetrics
SampleSize == 30    \* mergedPRs.slice(0, 30)
StaleHours == 24    \* getStalePRs(24) in getPRMetrics

Step == Hour \div 2                 \* the clock advances by half hours
PRs == 1..MaxPR
Users == {"alice", "bob"}

VARIABLES
    trackedPRs,     \* the Map<number, TrackedPR> of pr-tracker.ts
    upstream,       \* the repository on GitHub: PR number -> its state there
    hooks,          \* webhook payloads sent by GitHub and not yet handled
    sync,           \* the syncWithGitHub invocation: position and locals
                    \* (in SpecScheduler: the position of every job)
    now,            \* Date.now()
    run,            \* observer of the reconciliation runs
    call            \* observer of the last direct call of the tracker's API

vars == <<trackedPRs, upstream, hooks, sync, now, run, call>>

\* ------------------------------------------------------ objects and maps
\* { ...a, ...b }
Merge(a, b) ==
    [k \in DOMAIN a \cup DOMAIN b |-> IF k \in DOMAIN b THEN b[k] ELSE a[k]]

\* map.set(k, v) and map.delete(k) on a Map held as a function
MapSet(m, k, v) == [x \in DOMAIN m \cup {k} |-> IF x = k THEN v ELSE m[x]]
MapDelete(m, k) == [x \in DOMAIN m \ {k} |-> m[x]]

Has(o, f) == f \in DOMAIN o

\* [...new Set(s)]: the first occurrence of every element, in order
RECURSIVE Dedup(_)
Dedup(s) ==
    IF s = <<>> THEN <<>>
    ELSE LET init == Dedup(SubSeq(s, 1, Len(s) - 1))
             last == s[Len(s)]
         IN IF \E i \in 1..Len(init) : init[i] = last
            THEN init ELSE Append(init, last)

\* The identities in a list of reviews or of reviewers, and a list that
\* names nobody twice.
Range(s) == {s[j] : j \in 1..Len(s)}
NoDuplicate(s) == \A i, j \in 1..Len(s) : s[i] = s[j] => i = j
ReviewersOf(reviews) == {reviews[j].user : j \in 1..Len(reviews)}

\* ------------------------------------------------------------ pr-tracker
\* trackPR as it would be if the count of prData won over the stored one.
trackPR_countFromData(store, prData, t) ==
    LET age == (t - prData.createdAt) \div Hour
        known == prData.number \in DOMAIN store
        reviewers == IF known THEN store[prData.number].reviewers ELSE <<>>
        reviewCount == IF Has(prData, "reviewCount")
                       THEN prData.reviewCount ELSE 0
    IN MapSet(store, prData.number,
              Merge(prData, [reviewers |-> reviewers, age |-> age,
                             reviewCount |-> reviewCount]))

\* trackPR as it would be if the count of prData were added to the stored one.
trackPR_countAdded(store, prData, t) ==
    LET age == (t - prData.createdAt) \div Hour
        known == prData.number \in DOMAIN store
        reviewers == IF known THEN store[prData.number].reviewers ELSE <<>>
        reviewCount == (IF known /\ Has(store[prData.number], "reviewCount")
                        THEN store[prData.number].reviewCount ELSE 0)
                       + (IF Has(prData, "reviewCount")
                          THEN prData.reviewCount ELSE 0)
    IN MapSet(store, prData.number,
              Merge(prData, [reviewers |-> reviewers, age |-> age,
                             reviewCount |-> reviewCount]))

\* trackPR as it would be if the stored lastReviewedAt were carried over too.
trackPR_keepsLastReviewed(store, prData, t) ==
    LET age == (t - prData.createdAt) \div Hour
        known == prData.number \in DOMAIN store
        reviewers == IF known THEN store[prData.number].reviewers ELSE <<>>
        reviewCount == IF known /\ Has(store[prData.number], "reviewCount")
                       THEN store[prData.number].reviewCount ELSE 0
        kept == IF known /\ Has(store[prData.number], "lastReviewedAt")
                THEN [lastReviewedAt |-> store[prData.number].lastReviewedAt]
                ELSE <<>>
    IN MapSet(store, prData.number,
              Merge(Merge(kept, prData),
                    [reviewers |-> reviewers, age |-> age,
                     reviewCount |-> reviewCount]))

\* trackPR(prData) at time t
trackPR(store, prData, t) ==
    LET age == (t - prData.createdAt) \div Hour
        known == prData.number \in DOMAIN store
        reviewers == IF known THEN store[prData.number].reviewers ELSE <<>>
        reviewCount == IF known /\ Has(store[prData.number], "reviewCount")
                       THEN store[prData.number].reviewCount ELSE 0
    IN MapSet(store, prData.number,
              Merge(prData, [reviewers |-> reviewers, age |-> age,
                             reviewCount |-> reviewCount]))

\* updatePRStatus as it would be if reviewCount were replaced like the rest.
updatePRStatus_countReplaced(store, prNumber, updates) ==
    IF prNumber \notin DOMAIN store THEN store
    ELSE MapSet(store, prNumber, Merge(store[prNumber], updates))

\* updatePRStatus as it would be if an unknown number got a record.
updatePRStatus_upsert(store, prNumber, updates) ==
    LET pr == IF prNumber \in DOMAIN store THEN store[prNumber]
              ELSE [number |-> prNumber, reviewers |-> <<>>, reviewCount |-> 0]
        merged == Merge(pr, updates)
    IN MapSet(store, prNumber,
              IF Has(updates, "reviewCount")
              THEN Merge(merged,
                         [reviewCount |-> pr.reviewCount + updates.reviewCount])
              ELSE merged)

\* updatePRStatus(prNumber, updates)
updatePRStatus(store, prNumber, updates) ==
    IF prNumber \notin DOMAIN store THEN store
    ELSE LET pr == store[prNumber]
             old == IF Has(pr, "reviewCount") THEN pr.reviewCount ELSE 0
             merged == Merge(pr, updates)
         IN MapSet(store, prNumber,
                   IF Has(updates, "reviewCount")
                   THEN Merge(merged, [reviewCount |-> old + updates.reviewCount])
                   ELSE IF Has(pr, "reviewCount")
                        THEN Merge(merged, [reviewCount |-> pr.reviewCount])
                        ELSE merged)

\* removePR as it would be if a record with reviews counted were kept.
removePR_unreviewedOnly(store, prNumber) ==
    IF prNumber \in DOMAIN store /\ store[prNumber].reviewCount > 0
    THEN store ELSE MapDelete(store, prNumber)

\* removePR(prNumber)
removePR(store, prNumber) == MapDelete(store, prNumber)

\* getStalePRs as it would be if a pull request reviewed once never went
\* stale again.
getStalePRs_neverReviewedOnly(store, hoursThreshold, t) ==
    LET threshold == hoursThreshold * Hour
    IN {n \in DOMAIN store :
          LET pr == store[n]
              age == t - pr.createdAt
              hasNoRecentReview == ~Has(pr, "lastReviewedAt")
          IN age > threshold /\ hasNoRecentReview}

\* getStalePRs(hoursThreshold) at time t: the numbers of the records returned
getStalePRs(store, hoursThreshold, t) ==
    LET threshold == hoursThreshold * Hour
    IN {n \in DOMAIN store :
          LET pr == store[n]
              age == t - pr.createdAt
              hasNoRecentReview ==
                  \/ ~Has(pr, "lastReviewedAt")
                  \/ (t - pr.lastReviewedAt) > threshold
          IN age > threshold /\ hasNoRecentReview}

\* getPRsNeedingReview as it would be if both conditions were required.
getPRsNeedingReview_both(store) ==
    {n \in DOMAIN store :
        /\ ~Has(store[n], "lastReviewedAt")
        /\ Has(store[n], "reviewCount") /\ store[n].reviewCount = 0}

\* getPRsNeedingReview(): the numbers of the records returned
getPRsNeedingReview(store) ==
    {n \in DOMAIN store :
        \/ ~Has(store[n], "lastReviewedAt")
        \/ Has(store[n], "reviewCount") /\ store[n].reviewCount = 0}

\* formatPRAge as it would be if a full day still counted in hours.
formatPRAge_dayInHours(pr) ==
    LET hours == pr.age
    IN IF hours < 1 THEN "just opened"
       ELSE IF hours <= 24 THEN ToString(hours) \o "h old"
       ELSE ToString(hours \div 24) \o "d old"

\* formatPRAge(pr)
formatPRAge(pr) ==
    LET hours == pr.age
    IN IF hours < 1 THEN "just opened"
       ELSE IF hours < 24 THEN ToString(hours) \o "h old"
       ELSE ToString(hours \div 24) \o "d old"

\* ------------------------------------------------------------ repository
\* What GitHub holds for a pull request number.
NoPR == [state |-> "none", draft |-> FALSE, created_at |-> 0,
         updated_at |-> 0, reviews |-> <<>>]

Title(n) == <<"title", n>>
Url(n) == <<"url", n>>
Author(n) == <<"user", n>>
Owner == "owner"
Repo == "repo"

\* The pull_request object GitHub puts in a webhook payload or in a list.
Pull(n, up) ==
    [number |-> n, title |-> Title(n), html_url |-> Url(n), user |-> Author(n),
     created_at |-> up[n].created_at, updated_at |-> up[n].updated_at,
     state |-> up[n].state, draft |-> up[n].draft]

\* octokit.pulls.list({state: 'open', per_page: 100}): the open pull
\* requests, newest first (GitHub's default order), one page of them.
OpenNumbers(up) == {n \in DOMAIN up : up[n].state = "open"}

LastNumber(up) == CHOOSE n \in DOMAIN up : \A m \in DOMAIN up : m <= n

PullsList(up) ==
    LET open == OpenNumbers(up)
        nth(i) == CHOOSE n \in open : Cardinality({m \in open : m > n}) = i - 1
        all == [i \in 1..Cardinality(open) |-> Pull(nth(i), up)]
    IN IF Len(all) > PerPage THEN SubSeq(all, 1, PerPage) ELSE all

\* octokit.pulls.listReviews: the reviews of a pull request, oldest first.
ListReviews(up, n) == up[n].reviews

\* ---------------------------------------------------------------- metrics
RECURSIVE SumSeq(_)
SumSeq(s) == IF s = <<>> THEN 0 ELSE s[1] + SumSeq(Tail(s))

\* formatTimeDifference as it would be if the hours were rounded up.
formatTimeDifference_hoursUp(total, count) ==
    IF total < count * Hour
    THEN ToString(total \div (count * 1000 * 60)) \o "m"
    ELSE IF total < 24 * count * Hour
         THEN ToString((total + count * Hour - 1) \div (count * Hour)) \o "h"
         ELSE LET days == total \div (24 * count * Hour)
              IN IF days = 1 THEN "1 day" ELSE ToString(days) \o " days"

\* formatTimeDifference(total / count): the milliseconds are kept as a
\* fraction; with integer total and count below 2^53 the floors of the
\* double are the floors of the fraction.
formatTimeDifference(total, count) ==
    IF total < count * Hour
    THEN ToString(total \div (count * 1000 * 60)) \o "m"
    ELSE IF total < 24 * count * Hour
         THEN ToString(total \div (count * Hour)) \o "h"
         ELSE LET days == total \div (24 * count * Hour)
              IN IF days = 1 THEN "1 day" ELSE ToString(days) \o " days"

\* octokit.pulls.list({state: 'closed', per_page: 50, sort: 'updated',
\* direction: 'desc'}): the closed pull requests, higher numbers first.
RECURSIVE ClosedFrom(_, _)
ClosedFrom(up, n) ==
    IF n = 0 THEN <<>>
    ELSE IF n \in DOMAIN up /\ up[n].state = "closed"
         THEN <<Merge([number |-> n, created_at |-> up[n].created_at],
                      IF Has(up[n], "merged_at")
                      THEN [merged_at |-> up[n].merged_at] ELSE <<>>)>>
              \o ClosedFrom(up, n - 1)
         ELSE ClosedFrom(up, n - 1)

ClosedList(up) ==
    LET all == ClosedFrom(up, LastNumber(up))
    IN IF Len(all) > ClosedPerPage THEN SubSeq(all, 1, ClosedPerPage) ELSE all

\* mergedPRs.slice(0, 30)
MergedSample(up) ==
    LET hasMergedAt(pr) == Has(pr, "merged_at")
        mergedPRs == SelectSeq(ClosedList(up), hasMergedAt)
    IN IF Len(mergedPRs) > SampleSize
       THEN SubSeq(mergedPRs, 1, SampleSize) ELSE mergedPRs

\* The first loop and avgReviewTime as they would be if the total were
\* divided by the size of the sample.
ReviewTime_overSample(up, sample, rejected) ==
    LET counted(pr) == pr.number \notin rejected /\ up[pr.number].reviews # <<>>
        reviewed == SelectSeq(sample, counted)
        timeToReview == [j \in 1..Len(reviewed) |->
                            up[reviewed[j].number].reviews[1].submitted_at
                            - reviewed[j].created_at]
        totalReviewTime == SumSeq(timeToReview)
        reviewedCount == Len(reviewed)
    IN [reviewedCount |-> reviewedCount,
        avgReviewTime |-> IF reviewedCount > 0
                          THEN formatTimeDifference(totalReviewTime, Len(sample))
                          ELSE "N/A"]

\* The first loop of getPRMetrics and avgReviewTime; rejected: the numbers
\* whose listReviews request of this loop is rejected.
ReviewTime(up, sample, rejected) ==
    LET counted(pr) == pr.number \notin rejected /\ up[pr.number].reviews # <<>>
        reviewed == SelectSeq(sample, counted)
        timeToReview == [j \in 1..Len(reviewed) |->
                            up[reviewed[j].number].reviews[1].submitted_at
                            - reviewed[j].created_at]
        totalReviewTime == SumSeq(timeToReview)
        reviewedCount == Len(reviewed)
    IN [reviewedCount |-> reviewedCount,
        avgReviewTime |-> IF reviewedCount > 0
                          THEN formatTimeDifference(totalReviewTime, reviewedCount)
                          ELSE "N/A"]

\* The second loop and avgMergeTime
MergeTime(sample) ==
    LET timeToMerge == [j \in 1..Len(sample) |->
                           sample[j].merged_at - sample[j].created_at]
        mergedCount == Len(sample)
    IN [mergedCount |-> mergedCount,
        avgMergeTime |-> IF mergedCount > 0
                         THEN formatTimeDifference(SumSeq(timeToMerge), mergedCount)
                         ELSE "N/A"]

\* The third loop: totalReviews and reviewerCounts; rejected: the numbers
\* whose listReviews request of this loop is rejected.
ReviewerCounts(up, sample, rejected) ==
    LET fetched(pr) == pr.number \notin rejected
        lists == SelectSeq(sample, fetched)
        all == [j \in 1..Len(lists) |-> up[lists[j].number].reviews]
        by(u) == [j \in 1..Len(all) |->
                     Len(SelectSeq(all[j], LAMBDA review : review.user = u))]
        seen == UNION {ReviewersOf(all[j]) : j \in 1..Len(all)}
    IN [totalReviews |-> SumSeq([j \in 1..Len(all) |-> Len(all[j])]),
        reviewerCounts |-> [u \in seen |-> SumSeq(by(u))]]

\* What getPRMetrics returns when the closed list arrives.  The two
\* leaderboards are kept as maps from name to count: their order and their
\* cut at 5 entries are not modelled.  avgReviewsPerPR is kept in tenths.
MetricsOf(store, up, t, fetch) ==
    LET sample == MergedSample(up)
        review == ReviewTime(up, sample, fetch.firstRejected)
        merge == MergeTime(sample)
        counts == ReviewerCounts(up, sample, fetch.secondRejected)
        authors == {store[n].author : n \in DOMAIN store}
    IN [totalOpenPRs |-> Cardinality(DOMAIN store),
        needingReview |-> Cardinality(getPRsNeedingReview(store)),
        stalePRs |-> Cardinality(getStalePRs(store, StaleHours, t)),
        averageReviewTime |-> review.avgReviewTime,
        averageMergeTime |-> merge.avgMergeTime,
        totalReviewed |-> review.reviewedCount,
        totalMerged |-> merge.mergedCount,
        avgReviewsPerPR |->
            IF merge.mergedCount > 0
            THEN (20 * counts.totalReviews + merge.mergedCount)
                 \div (2 * merge.mergedCount)
            ELSE 0,
        topContributors |->
            [a \in authors |->
                Cardinality({n \in DOMAIN store : store[n].author = a})],
        topReviewers |-> counts.reviewerCounts]

\* getPRMetrics as it would be without the catch around listReviews.
getPRMetrics_noInnerCatch(store, up, t, fetch) ==
    IF fetch.listRejected \/ fetch.firstRejected # {} \/ fetch.secondRejected # {}
    THEN [status |-> "thrown"]
    ELSE Merge([status |-> "returned"], MetricsOf(store, up, t, fetch))

\* getPRMetrics(owner, repo) at time t, given which requests GitHub rejects
getPRMetrics(store, up, t, fetch) ==
    IF fetch.listRejected THEN [status |-> "thrown"]
    ELSE Merge([status |-> "returned"], MetricsOf(store, up, t, fetch))

\* -------------------------------------------------------- github-webhook
\* The prData as it would be if createdAt were read from updated_at.
PayloadPRData_createdFromUpdated(payload) ==
    [number |-> payload.pull_request.number,
     title |-> payload.pull_request.title,
     url |-> payload.pull_request.html_url,
     author |-> payload.pull_request.user,
     createdAt |-> payload.pull_request.updated_at,
     owner |-> Owner, repo |-> Repo,
     isDraft |-> payload.pull_request.draft]

\* The prData both handlers build from the payload.
PayloadPRData(payload) ==
    [number |-> payload.pull_request.number,
     title |-> payload.pull_request.title,
     url |-> payload.pull_request.html_url,
     author |-> payload.pull_request.user,
     createdAt |-> payload.pull_request.created_at,
     owner |-> Owner, repo |-> Repo,
     isDraft |-> payload.pull_request.draft]

\* handlePullRequestEvent(payload) at time t: the store it leaves
handlePullRequestEvent(store, payload, t) ==
    LET pull_request == payload.pull_request
        prData == PayloadPRData(payload)
    IN CASE payload.action = "opened" ->
              IF ~pull_request.draft THEN trackPR(store, prData, t) ELSE store
         [] payload.action = "ready_for_review" -> trackPR(store, prData, t)
         [] payload.action = "closed" ->
              IF pull_request.state = "closed"
              THEN removePR(store, pull_request.number) ELSE store
         [] payload.action = "reopened" -> trackPR(store, prData, t)
         [] payload.action = "synchronize" ->
              updatePRStatus(store, pull_request.number, [lastUpdated |-> t])
         [] OTHER -> store

\* handlePullRequestEvent(payload): the notifier functions it calls, with
\* the number they are called for
PullRequestNotifications(payload) ==
    LET pull_request == payload.pull_request
        notify(f) == <<[call |-> f, number |-> pull_request.number]>>
    IN CASE payload.action = "opened" ->
              IF ~pull_request.draft THEN notify("notifyPROpened") ELSE <<>>
         [] payload.action = "ready_for_review" -> notify("notifyPROpened")
         [] payload.action = "closed" ->
              IF pull_request.state = "closed"
              THEN LET wasMerged == pull_request.state = "closed"
                   IN IF wasMerged THEN notify("notifyPRMerged") ELSE <<>>
              ELSE <<>>
         [] OTHER -> <<>>

\* handlePullRequestReviewEvent(payload): the store it leaves
handlePullRequestReviewEvent(store, payload) ==
    IF payload.action = "submitted"
    THEN updatePRStatus(store, payload.pull_request.number,
                        [lastReviewedAt |-> payload.review.submitted_at,
                         reviewCount |-> 1])
    ELSE store

\* --------------------------------------------------------- syncWithGitHub
\* The loop's `continue` on drafts: the first index from i on that is not one.
RECURSIVE NextNonDraft(_, _)
NextNonDraft(pulls, i) ==
    IF i > Len(pulls) THEN i
    ELSE IF pulls[i].draft THEN NextNonDraft(pulls, i + 1) ELSE i

\* "Remove PRs that are no longer open"
RemoveNotOpen(store, pulls) ==
    LET openPRNumbers == {pulls[j].number : j \in 1..Len(pulls)}
    IN [n \in DOMAIN store \cap openPRNumbers |-> store[n]]

\* The pass as it would be if every review added its reviewer to the list.
SyncUpsert_reviewerPerReview(store, pr, reviews, t) ==
    LET base == [number |-> pr.number, title |-> pr.title, url |-> pr.html_url,
                 author |-> pr.user, createdAt |-> pr.created_at,
                 owner |-> Owner, repo |-> Repo, isDraft |-> pr.draft,
                 lastUpdated |-> pr.updated_at, reviewCount |-> Len(reviews)]
        prData == IF Len(reviews) > 0
                  THEN Merge(base, [lastReviewedAt |->
                                        reviews[Len(reviews)].submitted_at])
                  ELSE base
        tracked == trackPR(store, prData, t)
        reviewers == [j \in 1..Len(reviews) |-> reviews[j].user]
    IN IF pr.number \in DOMAIN tracked
       THEN MapSet(tracked, pr.number,
                   Merge(tracked[pr.number], [reviewers |-> reviewers]))
       ELSE tracked

\* One pass of the loop body for a pull request that is not a draft, once
\* its reviews have arrived: prData, trackPR, then the reviewers.
SyncUpsert(store, pr, reviews, t) ==
    LET base == [number |-> pr.number, title |-> pr.title, url |-> pr.html_url,
                 author |-> pr.user, createdAt |-> pr.created_at,
                 owner |-> Owner, repo |-> Repo, isDraft |-> pr.draft,
                 lastUpdated |-> pr.updated_at, reviewCount |-> Len(reviews)]
        prData == IF Len(reviews) > 0
                  THEN Merge(base, [lastReviewedAt |->
                                        reviews[Len(reviews)].submitted_at])
                  ELSE base
        tracked == trackPR(store, prData, t)
        reviewers == [j \in 1..Len(reviews) |-> reviews[j].user]
    IN IF pr.number \in DOMAIN tracked
       THEN MapSet(tracked, pr.number,
                   Merge(tracked[pr.number], [reviewers |-> Dedup(reviewers)]))
       ELSE tracked

\* Where the invocation stands after pass i - 1 of the loop.
SyncAdvance(s, i) ==
    LET j == NextNonDraft(s.pulls, i)
    IN [s EXCEPT !.i = j, !.reviews = <<>>, !.rejected = FALSE,
                 !.pc = IF j > Len(s.pulls) THEN "done" ELSE "reviews"]

\* ------------------------------------------------------------- observers
\* run.clean: no webhook has been handled since the current (or last)
\* reconciliation started; run.t0: the clock when it started (the repository
\* changes only as the clock advances); run.pre: the store when it started,
\* kept while clean; run.base: the store a preceding reconciliation left,
\* kept while nothing at all has happened since that one started;
\* run.closed: the numbers a 'closed' webhook removed from the store after
\* the last request for the open list, and for which no 'opened',
\* 'reopened' or 'ready_for_review' webhook has been handled since.
Opt(x) == <<x>>
None == <<>>

run0 == [clean |-> FALSE, t0 |-> 0, pre |-> None, base |-> None, closed |-> {}]
WebhookHandled(r) == [r EXCEPT !.clean = FALSE, !.pre = None, !.base = None]
ClockAdvanced(r) == [r EXCEPT !.base = None]
ClosedObserved(r, payload, store, left) ==
    LET n == payload.pull_request.number
    IN [r EXCEPT !.closed =
          IF payload.action = "closed" /\ n \in DOMAIN store \ DOMAIN left
          THEN @ \cup {n}
          ELSE IF payload.action \in {"opened", "reopened", "ready_for_review"}
               THEN @ \ {n} ELSE @]

sync0 == [pc |-> "idle", pulls |-> <<>>, i |-> 0, reviews |-> <<>>,
          rejected |-> FALSE]
call0 == [op |-> "none"]

\* The process starts with an empty store on a repository that has a
\* history: what pull requests 1 and 2 may be when it starts.
OpenPR == [state |-> "open", draft |-> FALSE, created_at |-> 0,
           updated_at |-> 0, reviews |-> <<>>]
ReviewedPR == [OpenPR EXCEPT
                 !.reviews = <<[user |-> "alice", submitted_at |-> 0]>>]
DraftPR == [OpenPR EXCEPT !.draft = TRUE]
ClosedDraftPR == [OpenPR EXCEPT !.state = "closed", !.draft = TRUE]
ReviewedClosedDraftPR == [ReviewedPR EXCEPT !.state = "closed", !.draft = TRUE]

Repository(first, second) ==
    [n \in PRs |-> IF n = 1 THEN first ELSE IF n = 2 THEN second ELSE NoPR]

InitialRepositories ==
    {Repository(NoPR, NoPR), Repository(ReviewedPR, NoPR),
     Repository(DraftPR, NoPR), Repository(ClosedDraftPR, OpenPR),
     Repository(OpenPR, ReviewedPR), Repository(ReviewedClosedDraftPR, NoPR)}

Init ==
    /\ trackedPRs = <<>>
    /\ upstream \in InitialRepositories
    /\ hooks = {}
    /\ sync = sync0
    /\ now = 0
    /\ run = run0
    /\ call = call0

\* ------------------------------------------- the repository and its hooks
\* Something happens on GitHub: the clock advances, pull request n becomes
\* pr, and GitHub sends the webhook for it.
Happens(n, pr, event, action, extra) ==
    /\ now < MaxClock * Step
    /\ now' = now + Step
    /\ upstream' = [upstream EXCEPT ![n] = pr]
    /\ hooks' = hooks \cup
         {Merge([event |-> event, action |-> action,
                 pull_request |-> Pull(n, upstream')], extra)}
    /\ run' = ClockAdvanced(run)
    /\ UNCHANGED <<trackedPRs, sync, call>>

Touched(n) == [upstream[n] EXCEPT !.updated_at = now + Step]

UpOpen(n, draft) ==
    /\ upstream[n].state = "none"
    /\ n > 1 => upstream[n - 1].state # "none"
    /\ Happens(n, [state |-> "open", draft |-> draft,
                   created_at |-> now + Step, updated_at |-> now + Step,
                   reviews |-> <<>>],
               "pull_request", "opened", <<>>)

UpReadyForReview(n) ==
    /\ upstream[n].state = "open" /\ upstream[n].draft
    /\ Happens(n, [Touched(n) EXCEPT !.draft = FALSE],
               "pull_request", "ready_for_review", <<>>)

UpConvertToDraft(n) ==
    /\ upstream[n].state = "open" /\ ~upstream[n].draft
    /\ Happens(n, [Touched(n) EXCEPT !.draft = TRUE],
               "pull_request", "converted_to_draft", <<>>)

UpClose(n) ==
    /\ upstream[n].state = "open"
    /\ Happens(n, [Touched(n) EXCEPT !.state = "closed"],
               "pull_request", "closed", <<>>)

UpReopen(n) ==
    /\ upstream[n].state = "closed"
    /\ Happens(n, [Touched(n) EXCEPT !.state = "open"],
               "pull_request", "reopened", <<>>)

UpPush(n) ==
    /\ upstream[n].state = "open"
    /\ Happens(n, Touched(n), "pull_request", "synchronize", <<>>)

UpReview(n, u) ==
    /\ upstream[n].state = "open"
    /\ LET review == [user |-> u, submitted_at |-> now + Step]
       IN Happens(n, [Touched(n) EXCEPT !.reviews = Append(@, review)],
                  "pull_request_review", "submitted", [review |-> review])

Tick ==
    /\ now < MaxClock * Step
    /\ now' = now + Step
    /\ run' = ClockAdvanced(run)
    /\ UNCHANGED <<trackedPRs, upstream, hooks, sync, call>>

\* ------------------------------------------------------- webhook delivery
\* handleWebhook, case 'pull_request'
HandlePullRequest ==
    \E payload \in hooks :
        /\ payload.event = "pull_request"
        /\ trackedPRs' = handlePullRequestEvent(trackedPRs, payload, now)
        /\ hooks' = hooks \ {payload}
        /\ run' = ClosedObserved(WebhookHandled(run), payload,
                                 trackedPRs, trackedPRs')
        /\ UNCHANGED <<upstream, sync, now, call>>

\* handleWebhook, case 'pull_request_review'
HandlePullRequestReview ==
    \E payload \in hooks :
        /\ payload.event = "pull_request_review"
        /\ trackedPRs' = handlePullRequestReviewEvent(trackedPRs, payload)
        /\ hooks' = hooks \ {payload}
        /\ run' = WebhookHandled(run)
        /\ UNCHANGED <<upstream, sync, now, call>>

\* ---------------------------------------------------- the reconciliation
\* syncWithGitHub is called and GitHub answers (or rejects) the list
\* request; the answer is on its way.
SyncList ==
    /\ sync.pc \in {"idle", "done", "failed"}
    /\ \E rejected \in BOOLEAN :
         sync' = [pc |-> "list",
                  pulls |-> IF rejected THEN <<>> ELSE PullsList(upstream),
                  i |-> 0, reviews |-> <<>>, rejected |-> rejected]
    /\ run' = [clean |-> TRUE, t0 |-> now, pre |-> Opt(trackedPRs),
               base |-> IF sync.pc = "done" /\ run.clean /\ run.t0 = now
                        THEN Opt(trackedPRs) ELSE None,
               closed |-> {}]
    /\ UNCHANGED <<trackedPRs, upstream, hooks, now, call>>

\* The list arrives: the removals, and the loop up to its first request for
\* reviews; a rejected request goes to the catch, which rethrows.
SyncApplyList ==
    /\ sync.pc = "list"
    /\ IF sync.rejected
       THEN /\ sync' = [sync EXCEPT !.pc = "failed"]
            /\ UNCHANGED trackedPRs
       ELSE /\ trackedPRs' = RemoveNotOpen(trackedPRs, sync.pulls)
            /\ sync' = SyncAdvance(sync, 1)
    /\ UNCHANGED <<upstream, hooks, now, run, call>>

\* GitHub answers (or rejects) the request for the reviews of pulls[i].
SyncListReviews ==
    /\ sync.pc = "reviews"
    /\ \E rejected \in BOOLEAN :
         sync' = [sync EXCEPT
                    !.pc = "track", !.rejected = rejected,
                    !.reviews = IF rejected THEN <<>>
                                ELSE ListReviews(upstream, sync.pulls[sync.i].number)]
    /\ UNCHANGED <<trackedPRs, upstream, hooks, now, run, call>>

\* The reviews arrive: the rest of the loop body, and the loop up to its
\* next request or its end; a rejected request goes to the catch.
SyncTrack ==
    /\ sync.pc = "track"
    /\ IF sync.rejected
       THEN /\ sync' = [sync EXCEPT !.pc = "failed"]
            /\ UNCHANGED trackedPRs
       ELSE /\ trackedPRs' = SyncUpsert(trackedPRs, sync.pulls[sync.i],
                                        sync.reviews, now)
            /\ sync' = SyncAdvance(sync, sync.i + 1)
    /\ UNCHANGED <<upstream, hooks, now, run, call>>

Next ==
    \/ \E n \in PRs, draft \in BOOLEAN : UpOpen(n, draft)
    \/ \E n \in PRs : UpReadyForReview(n)
    \/ \E n \in PRs : UpConvertToDraft(n)
    \/ \E n \in PRs : UpClose(n)
    \/ \E n \in PRs : UpReopen(n)
    \/ \E n \in PRs : UpPush(n)
    \/ \E n \in PRs, u \in Users : UpReview(n, u)
    \/ Tick
    \/ HandlePullRequest
    \/ HandlePullRequestReview
    \/ SyncList
    \/ SyncApplyList
    \/ SyncListReviews
    \/ SyncTrack

Spec == Init /\ [][Next]_vars

\* ------------------------------------------------- direct calls of the API
\* The exported functions called with arguments of our choice, on two
\* pull request numbers.
ApiPRs == {1, 2}

PRDataInputs ==
    LET plain(n, d) == [number |-> n, title |-> Title(n), url |-> Url(n),
                        author |-> Author(n), createdAt |-> 0,
                        owner |-> Owner, repo |-> Repo, isDraft |-> d]
    IN {plain(n, d) : n \in ApiPRs, d \in BOOLEAN}
       \cup {Merge(plain(n, FALSE),
                   [reviewCount |-> 2, lastUpdated |-> Step]) : n \in ApiPRs}

UpdateInputs ==
    {[lastUpdated |-> Hour],
     [lastReviewedAt |-> Step, reviewCount |-> 1],
     [reviewCount |-> 0],
     [reviewCount |-> 2],
     [reviewers |-> <<"alice">>],
     [isDraft |-> TRUE]}

InitApi ==
    /\ trackedPRs = <<>>
    /\ upstream = [n \in PRs |-> NoPR]
    /\ hooks = {}
    /\ sync = sync0
    /\ now = Hour
    /\ run = run0
    /\ call = call0

\* call.follows of a track: whether the call before it removed its number.
TrackCall(prData) ==
    /\ trackedPRs' = trackPR(trackedPRs, prData, now)
    /\ call' = [op |-> "track", prData |-> prData,
                follows |-> IF call.op = "remove"
                               /\ call.prNumber = prData.number
                            THEN "remove" ELSE "other"]
    /\ UNCHANGED <<upstream, hooks, sync, now, run>>

UpdateStatusCall(prNumber, updates) ==
    /\ trackedPRs' = updatePRStatus(trackedPRs, prNumber, updates)
    /\ prNumber \in DOMAIN trackedPRs'
         => trackedPRs'[prNumber].reviewCount <= MaxCount
    /\ call' = [op |-> "updateStatus", prNumber |-> prNumber,
                updates |-> updates]
    /\ UNCHANGED <<upstream, hooks, sync, now, run>>

RemoveCall(prNumber) ==
    /\ trackedPRs' = removePR(trackedPRs, prNumber)
    /\ call' = [op |-> "remove", prNumber |-> prNumber]
    /\ UNCHANGED <<upstream, hooks, sync, now, run>>

NextApi ==
    \/ \E prData \in PRDataInputs : TrackCall(prData)
    \/ \E n \in ApiPRs, updates \in UpdateInputs : UpdateStatusCall(n, updates)
    \/ \E n \in ApiPRs : RemoveCall(n)

SpecApi == InitApi /\ [][NextApi]_vars

\* ------------------------------------------- webhooks of our choice, any order
\* handleWebhook called with payloads GitHub may deliver late, twice or out
\* of order: the payloads are chosen freely instead of following a repository.
\* GitHub sets pull_request.merged in the payload of a 'closed' event.
HookTimes == {0, Step, Hour}

HookPull(n, state, draft) ==
    [number |-> n, title |-> Title(n), html_url |-> Url(n), user |-> Author(n),
     created_at |-> 0, updated_at |-> 0, state |-> state, draft |-> draft]

PullRequestPayloads ==
    {[event |-> "pull_request", action |-> "opened",
      pull_request |-> HookPull(n, "open", FALSE)] : n \in ApiPRs}
    \cup {[event |-> "pull_request", action |-> "reopened",
           pull_request |-> HookPull(n, "open", FALSE)] : n \in ApiPRs}
    \cup {[event |-> "pull_request", action |-> "ready_for_review",
           pull_request |-> HookPull(n, "open", FALSE)] : n \in ApiPRs}
    \cup {[event |-> "pull_request", action |-> "closed",
           pull_request |-> Merge(HookPull(n, "closed", FALSE),
                                  [merged |-> merged])] :
             n \in ApiPRs, merged \in BOOLEAN}

ReviewPayloads ==
    {[event |-> "pull_request_review", action |-> "submitted",
      pull_request |-> HookPull(n, "open", FALSE),
      review |-> [user |-> u, submitted_at |-> t]] :
        n \in ApiPRs, u \in Users, t \in HookTimes}

InitHooks ==
    /\ trackedPRs = <<>>
    /\ upstream = [n \in PRs |-> NoPR]
    /\ hooks = {}
    /\ sync = sync0
    /\ now = Hour
    /\ run = run0
    /\ call = call0

DeliverPullRequest(payload) ==
    /\ trackedPRs' = handlePullRequestEvent(trackedPRs, payload, now)
    /\ call' = [op |-> "pull_request", payload |-> payload,
                sent |-> PullRequestNotifications(payload)]
    /\ UNCHANGED <<upstream, hooks, sync, now, run>>

DeliverReview(payload) ==
    /\ trackedPRs' = handlePullRequestReviewEvent(trackedPRs, payload)
    /\ \A n \in DOMAIN trackedPRs' : trackedPRs'[n].reviewCount <= MaxCount
    /\ call' = [op |-> "pull_request_review", payload |-> payload]
    /\ UNCHANGED <<upstream, hooks, sync, now, run>>

NextHooks ==
    \/ \E payload \in PullRequestPayloads : DeliverPullRequest(payload)
    \/ \E payload \in ReviewPayloads : DeliverReview(payload)

SpecHooks == InitHooks /\ [][NextHooks]_vars

\* ------------------------------------------------------------ the queries
\* getStalePRs, getPRsNeedingReview and formatPRAge applied to stores of our
\* choice: each of two numbers is untracked or holds a record created some
\* time ago, last reviewed some time ago or never, with or without a count.
QueryNow == 49 * Hour

\* How long ago, in half hours, a record was created or last reviewed.
CreatedAgo == {1, 2, 10, 47, 48, 49, 96, 98}
ReviewedAgo == {1, 48, 49, 96}
QueryThresholds == {1, 24, 48}

QueryRecords(n) ==
    LET record(c, count) ==
            [number |-> n, title |-> Title(n), url |-> Url(n),
             author |-> Author(n), createdAt |-> QueryNow - c * Step,
             owner |-> Owner, repo |-> Repo, isDraft |-> FALSE,
             reviewers |-> <<>>, age |-> (c * Step) \div Hour,
             reviewCount |-> count]
    IN {record(c, count) : c \in CreatedAgo, count \in {0, 1}}
       \cup UNION {{Merge(record(c, count),
                          [lastReviewedAt |-> QueryNow - r * Step]) :
                       r \in {x \in ReviewedAgo : x <= c}} :
                    c \in CreatedAgo, count \in {0, 1}}

QueryStores ==
    {<<>>} \cup {(1 :> a) : a \in QueryRecords(1)}
    \cup {(1 :> a) @@ (2 :> b) : a \in QueryRecords(1), b \in QueryRecords(2)}

InitQuery ==
    /\ trackedPRs \in QueryStores
    /\ upstream = [n \in PRs |-> NoPR]
    /\ hooks = {}
    /\ sync = sync0
    /\ now = QueryNow
    /\ run = run0
    /\ call = call0

StaleQuery(hoursThreshold) ==
    /\ call' = [op |-> "getStalePRs", hoursThreshold |-> hoursThreshold,
                result |-> getStalePRs(trackedPRs, hoursThreshold, now)]
    /\ UNCHANGED <<trackedPRs, upstream, hooks, sync, now, run>>

NeedingReviewQuery ==
    /\ call' = [op |-> "getPRsNeedingReview",
                result |-> getPRsNeedingReview(trackedPRs)]
    /\ UNCHANGED <<trackedPRs, upstream, hooks, sync, now, run>>

FormatAgeQuery(n) ==
    /\ n \in DOMAIN trackedPRs
    /\ call' = [op |-> "formatPRAge", pr |-> trackedPRs[n],
                result |-> formatPRAge(trackedPRs[n])]
    /\ UNCHANGED <<trackedPRs, upstream, hooks, sync, now, run>>

NextQuery ==
    \/ \E hoursThreshold \in QueryThresholds : StaleQuery(hoursThreshold)
    \/ NeedingReviewQuery
    \/ \E n \in ApiPRs : FormatAgeQuery(n)

SpecQuery == InitQuery /\ [][NextQuery]_vars

\* ------------------------------------------------------------ getPRMetrics
\* getPRMetrics called on repositories of three closed pull requests, each
\* unmerged or merged, with no review or with a first review some time
\* after its creation.  The repository does not change while the call runs.
MetricsPRs == {1, 2, 3}

Closed(reviews) == [state |-> "closed", draft |-> FALSE, created_at |-> 0,
                    updated_at |-> 48 * Hour, reviews |-> reviews]
Merged(reviews) == Merge(Closed(reviews), [merged_at |-> 48 * Hour])
ReviewAt(u, t) == [user |-> u, submitted_at |-> t]

ClosedPRs ==
    {Closed(<<ReviewAt("bob", Hour)>>),
     Merged(<<>>),
     Merged(<<ReviewAt("bob", Step)>>),
     Merged(<<ReviewAt("alice", Hour)>>),
     Merged(<<ReviewAt("bob", 3 * Hour), ReviewAt("alice", 4 * Hour)>>),
     Merged(<<ReviewAt("alice", 5 * Hour), ReviewAt("alice", 6 * Hour)>>),
     Merged(<<ReviewAt("bob", 30 * Hour)>>)}

MetricsStores ==
    {<<>>} \cup {(1 :> a) : a \in {r \in QueryRecords(1) :
                                      /\ r.createdAt = 0 /\ r.reviewCount = 0
                                      /\ ~Has(r, "lastReviewedAt")}}

\* GitHub rejects the list request, or at most one listReviews request of
\* each loop.
Fetches(up) ==
    LET sample == MergedSample(up)
        numbers == {sample[j].number : j \in 1..Len(sample)}
        atMostOne == {{}} \cup {{n} : n \in numbers}
    IN {[listRejected |-> TRUE, firstRejected |-> {}, secondRejected |-> {}]}
       \cup {[listRejected |-> FALSE, firstRejected |-> F, secondRejected |-> S] :
               F \in atMostOne, S \in atMostOne}

InitMetrics ==
    /\ trackedPRs \in MetricsStores
    /\ upstream \in [MetricsPRs -> ClosedPRs]
    /\ hooks = {}
    /\ sync = sync0
    /\ now = QueryNow
    /\ run = run0
    /\ call = call0

MetricsCall(fetch) ==
    /\ call' = [op |-> "getPRMetrics", fetch |-> fetch,
                result |-> getPRMetrics(trackedPRs, upstream, now, fetch)]
    /\ UNCHANGED <<trackedPRs, upstream, hooks, sync, now, run>>

NextMetrics == \E fetch \in Fetches(upstream) : MetricsCall(fetch)

SpecMetrics == InitMetrics /\ [][NextMetrics]_vars

\* ------------------------------------------------------------ the scheduler
\* The jobs that call syncWithGitHub, on a repository with no pull request:
\* the initial sync of startScheduler, the three cron jobs with their default
\* expressions, and POST /check-stale-prs.  The clock is the time of day in
\* quarters of an hour.  A job is idle, or waits for the open list inside
\* syncWithGitHub, or (the daily summary) for the closed list of
\* getPRMetrics, or for Slack.  At most one invocation of each job is
\* followed; nothing in the code prevents more.
Quarter == Hour \div 4
Day == 24 * Hour
Jobs == {"initial", "sync", "stale", "daily", "manual"}

\* '*/15 * * * *', '0 * * * *' and '0 9 * * *'
Due(job, t) ==
    CASE job = "sync" -> t % Quarter = 0
      [] job = "stale" -> t % Hour = 0
      [] job = "daily" -> t = 9 * Hour
      [] OTHER -> FALSE

\* The job calls syncWithGitHub, which requests the open list.
Started(jobs, job) == [jobs EXCEPT ![job] = "list"]

InitScheduler ==
    /\ trackedPRs = <<>>
    /\ upstream = [n \in PRs |-> NoPR]
    /\ hooks = {}
    /\ now \in {q * Quarter : q \in 0..95}
    /\ sync = Started([job \in Jobs |-> "idle"], "initial")
    /\ run = run0
    /\ call = call0

\* A quarter of an hour passes and node-cron calls the jobs that are due; a
\* job of which an invocation is still running is not followed a second time.
RECURSIVE StartAll(_, _)
StartAll(jobs, due) ==
    IF due = {} THEN jobs
    ELSE LET job == CHOOSE j \in due : TRUE
         IN StartAll(Started(jobs, job), due \ {job})

CronTick ==
    /\ now' = (now + Quarter) % Day
    /\ sync' = StartAll(sync, {job \in Jobs : Due(job, now') /\ sync[job] = "idle"})
    /\ UNCHANGED <<trackedPRs, upstream, hooks, run, call>>

\* POST /check-stale-prs
ManualTrigger ==
    /\ sync["manual"] = "idle"
    /\ sync' = Started(sync, "manual")
    /\ UNCHANGED <<trackedPRs, upstream, hooks, now, run, call>>

\* The open list arrives, empty, or the request is rejected: syncWithGitHub
\* removes every tracked number and returns, or throws into the catch of
\* the job.  checkStalePRs finds no stale pull request and ends; the daily
\* summary goes on to getPRMetrics.
JobListArrives(job) ==
    /\ sync[job] = "list"
    /\ \E rejected \in BOOLEAN :
         /\ trackedPRs' = IF rejected THEN trackedPRs
                          ELSE RemoveNotOpen(trackedPRs, PullsList(upstream))
         /\ sync' = [sync EXCEPT ![job] =
                        IF job = "daily" /\ ~rejected THEN "metrics" ELSE "idle"]
    /\ UNCHANGED <<upstream, hooks, now, run, call>>

\* The closed list of getPRMetrics arrives or is rejected.
DailyMetricsArrive ==
    /\ sync["daily"] = "metrics"
    /\ \E rejected \in BOOLEAN :
         sync' = [sync EXCEPT !["daily"] = IF rejected THEN "idle" ELSE "slack"]
    /\ UNCHANGED <<trackedPRs, upstream, hooks, now, run, call>>

\* sendDailySummary returns.
DailySummarySent ==
    /\ sync["daily"] = "slack"
    /\ sync' = [sync EXCEPT !["daily"] = "idle"]
    /\ UNCHANGED <<trackedPRs, upstream, hooks, now, run, call>>

NextScheduler ==
    \/ CronTick
    \/ ManualTrigger
    \/ \E job \in Jobs : JobListArrives(job)
    \/ DailyMetricsArrive
    \/ DailySummarySent

SpecScheduler == InitScheduler /\ [][NextScheduler]_vars

\* ------------------------------------------- more open pull requests than a page
\* The reconciliation on a repository with one open pull request more than
\* the list request returns, while the store tracks the oldest of them
\* (tracked by its 'opened' webhook).  One reconciliation is followed and
\* nothing else happens.
PageRepository == [n \in 1..(PerPage + 1) |-> OpenPR]

InitPage ==
    /\ upstream = PageRepository
    /\ trackedPRs = trackPR(<<>>, PayloadPRData([pull_request |-> Pull(1, upstream)]), 0)
    /\ hooks = {}
    /\ sync = sync0
    /\ now = 0
    /\ run = run0
    /\ call = call0

FirstSyncList == sync.pc = "idle" /\ SyncList

NextPage ==
    \/ FirstSyncList
    \/ SyncApplyList
    \/ SyncListReviews
    \/ SyncTrack

SpecPage == InitPage /\ [][NextPage]_vars

\* ================================================================ claims
OpenNonDraft == {n \in PRs : upstream[n].state = "open" /\ ~upstream[n].draft}

\* A reconciliation has returned normally, no webhook was handled since it
\* started, and the repository is as it was when it started.
SyncSettled == sync.pc = "done" /\ run.clean /\ run.t0 = now

\* C1: after a reconciliation that completed with no webhook handled during
\* it, every open, non-draft pull request of the repository is tracked with
\* reviewCount equal to the number of reviews GitHub returned for it.
C1_SyncOverwritesReviewCount ==
    SyncSettled =>
        \A n \in OpenNonDraft :
            /\ n \in DOMAIN trackedPRs
            /\ trackedPRs[n].reviewCount = Len(upstream[n].reviews)

\* C2: after such a reconciliation the numbers in the store are exactly the
\* open, non-draft pull requests of the repository.
C2_StoreIsOpenNonDraft ==
    SyncSettled => DOMAIN trackedPRs = OpenNonDraft

\* C3: no record of the store ever has isDraft = true.
C3_NoDraftTracked ==
    \A n \in DOMAIN trackedPRs : ~trackedPRs[n].isDraft

\* C4: with every review delivered at most once, a tracked pull request's
\* reviewCount never exceeds the number of reviews submitted on GitHub, and
\* after a reconciliation that ran past the last event it is not lower.
C4_NoLostNoDoubleCount ==
    \A n \in DOMAIN trackedPRs :
        /\ trackedPRs[n].reviewCount <= Len(upstream[n].reviews)
        /\ SyncSettled /\ n \in OpenNonDraft
             => trackedPRs[n].reviewCount >= Len(upstream[n].reviews)

\* C5: when the request for the reviews of one pull request is rejected,
\* the reconciliation still returns normally, every other non-draft pull
\* request of the list is upserted, and the entry (or absence) of the
\* failing one is as it was before the reconciliation.
C5_ReviewFailureSkipsOnePR ==
    LET ended == sync.pc \in {"done", "failed"}
        failing == sync.pulls[sync.i].number
        others == {sync.pulls[j].number : j \in
                     {k \in 1..Len(sync.pulls) :
                        k # sync.i /\ ~sync.pulls[k].draft}}
        before == run.pre[1]
    IN (ended /\ sync.rejected /\ sync.i > 0 /\ run.clean) =>
          /\ sync.pc = "done"
          /\ others \subseteq DOMAIN trackedPRs
          /\ failing \in DOMAIN trackedPRs <=> failing \in DOMAIN before
          /\ failing \in DOMAIN before => trackedPRs[failing] = before[failing]

\* C6: a reconciliation run right after another, with the repository, the
\* clock and the store untouched in between, leaves the store as the first
\* one left it.
C6_SyncIdempotent ==
    (SyncSettled /\ run.base # None) => trackedPRs = run.base[1]

C6_Witness ==
    /\ SyncSettled /\ run.base # None
    /\ \E n \in DOMAIN trackedPRs :
          /\ trackedPRs[n].reviewers # <<>>
          /\ trackedPRs[n].reviewCount # Len(upstream[n].reviews)
    /\ \E n \in PRs : upstream[n].state = "open" /\ upstream[n].draft

\* C7: whenever a reconciliation ends in failure, the store is as it was
\* before the call.
C7_FailedSyncLeavesStore ==
    (sync.pc = "failed" /\ run.clean) => trackedPRs = run.pre[1]

\* C8: while a number stays tracked its reviewCount never decreases, under
\* the tracks, status updates and reconciliations the program performs.
C8_ReviewCountMonotonic ==
    [][\A n \in DOMAIN trackedPRs \cap DOMAIN trackedPRs' :
          trackedPRs'[n].reviewCount >= trackedPRs[n].reviewCount]_vars

\* A reconciliation has upserted a pull request whose count the webhooks had
\* raised before it started.
C8_Witness ==
    /\ sync.pc = "done" /\ run.clean
    /\ \E j \in 1..Len(sync.pulls) :
          /\ ~sync.pulls[j].draft
          /\ sync.pulls[j].number \in DOMAIN trackedPRs
          /\ trackedPRs[sync.pulls[j].number].reviewCount >= 1

\* C9: track(prData) keeps the reviewers and reviewCount of a number that is
\* tracked, whatever reviewCount prData carries, starts a number that is not
\* tracked at no reviewers and reviewCount 0, and changes no other record.
C9_TrackPreservesReviewState ==
    [][call'.op = "track" =>
         LET n == call'.prData.number
         IN /\ DOMAIN trackedPRs' = DOMAIN trackedPRs \cup {n}
            /\ IF n \in DOMAIN trackedPRs
               THEN /\ trackedPRs'[n].reviewers = trackedPRs[n].reviewers
                    /\ trackedPRs'[n].reviewCount = trackedPRs[n].reviewCount
               ELSE /\ trackedPRs'[n].reviewers = <<>>
                    /\ trackedPRs'[n].reviewCount = 0
            /\ \A m \in DOMAIN trackedPRs \ {n} :
                  trackedPRs'[m] = trackedPRs[m]]_vars

\* track was called with a prData carrying a reviewCount, for a number that
\* held another count and a reviewer, next to another tracked number.
C9_Witness ==
    /\ call.op = "track" /\ Has(call.prData, "reviewCount")
    /\ LET n == call.prData.number
       IN /\ n \in DOMAIN trackedPRs
          /\ trackedPRs[n].reviewCount \notin {0, call.prData.reviewCount}
          /\ trackedPRs[n].reviewers # <<>>
          /\ DOMAIN trackedPRs # {n}

\* C10: updateStatus on a tracked number adds a supplied reviewCount to the
\* stored one, replaces every other supplied field, and leaves the other
\* fields and the other records as they were.
C10_UpdateStatusMerges ==
    [][(call'.op = "updateStatus" /\ call'.prNumber \in DOMAIN trackedPRs) =>
         LET n == call'.prNumber
             updates == call'.updates
             old == trackedPRs[n]
             new == trackedPRs'[n]
         IN /\ DOMAIN trackedPRs' = DOMAIN trackedPRs
            /\ DOMAIN new = DOMAIN old \cup DOMAIN updates
            /\ new.reviewCount =
                  IF Has(updates, "reviewCount")
                  THEN old.reviewCount + updates.reviewCount
                  ELSE old.reviewCount
            /\ \A f \in DOMAIN updates \ {"reviewCount"} : new[f] = updates[f]
            /\ \A f \in DOMAIN old \ DOMAIN updates : new[f] = old[f]
            /\ \A m \in DOMAIN trackedPRs \ {n} :
                  trackedPRs'[m] = trackedPRs[m]]_vars

\* updateStatus was called with a count and a date on a tracked number whose
\* count was already positive, next to another tracked number.
C10_Witness ==
    /\ call.op = "updateStatus" /\ call.prNumber \in DOMAIN trackedPRs
    /\ Has(call.updates, "reviewCount") /\ Has(call.updates, "lastReviewedAt")
    /\ trackedPRs[call.prNumber].reviewCount > call.updates.reviewCount
    /\ trackedPRs[call.prNumber].lastReviewedAt = call.updates.lastReviewedAt
    /\ DOMAIN trackedPRs # {call.prNumber}

\* What C11 asks of the record of pull request n.
MirrorsReviews(n) ==
    LET reviews == upstream[n].reviews
        pr == trackedPRs[n]
    IN /\ NoDuplicate(pr.reviewers)
       /\ Range(pr.reviewers) = ReviewersOf(reviews)
       /\ IF reviews = <<>> THEN ~Has(pr, "lastReviewedAt")
          ELSE /\ Has(pr, "lastReviewedAt")
               /\ pr.lastReviewedAt = reviews[Len(reviews)].submitted_at

\* C11: after a reconciliation that completed with no webhook handled during
\* it, the reviewers of every tracked pull request are the reviewers of its
\* reviews on GitHub, each once, and its lastReviewedAt is the submission
\* time of the last of these reviews, or is not set when there is none.
C11_SyncMirrorsReviews ==
    SyncSettled => \A n \in DOMAIN trackedPRs : MirrorsReviews(n)

\* C12: when a submitted review is delivered for a tracked pull request,
\* in whatever order the reviews arrive, its lastReviewedAt becomes the
\* latest submission time delivered since it was tracked: the stored one
\* when that is later than the delivered one, and it never moves backwards.
C12_LastReviewedIsLatest ==
    [][(/\ call'.op = "pull_request_review"
        /\ call'.payload.pull_request.number \in DOMAIN trackedPRs) =>
         LET n == call'.payload.pull_request.number
             t == call'.payload.review.submitted_at
             old == trackedPRs[n]
         IN trackedPRs'[n].lastReviewedAt =
               IF Has(old, "lastReviewedAt") /\ old.lastReviewedAt > t
               THEN old.lastReviewedAt ELSE t]_vars

\* C13: getStalePRs(threshold) returns exactly the tracked pull requests
\* created strictly longer ago than the threshold and either never reviewed
\* or last reviewed strictly longer ago than the threshold; so one older
\* than the threshold and last reviewed before it is stale, and one younger
\* than the threshold is not.
C13_StaleIsOldAndUnreviewed ==
    call.op = "getStalePRs" =>
        LET ms == call.hoursThreshold * 60 * 60 * 1000
            old(n) == now - trackedPRs[n].createdAt > ms
            reviewedWithin(n) ==
                /\ Has(trackedPRs[n], "lastReviewedAt")
                /\ now - trackedPRs[n].lastReviewedAt <= ms
        IN /\ call.result \subseteq DOMAIN trackedPRs
           /\ \A n \in DOMAIN trackedPRs :
                 /\ n \in call.result <=> old(n) /\ ~reviewedWithin(n)
                 /\ (/\ old(n) /\ Has(trackedPRs[n], "lastReviewedAt")
                     /\ now - trackedPRs[n].lastReviewedAt > ms)
                       => n \in call.result
                 /\ now - trackedPRs[n].createdAt < ms => n \notin call.result

\* With a threshold of 24 hours: a pull request reviewed 48 hours ago is
\* returned, next to one that is exactly 24 hours old and is not.
C13_Witness ==
    /\ call.op = "getStalePRs" /\ call.hoursThreshold = 24
    /\ \E n \in call.result :
          /\ Has(trackedPRs[n], "lastReviewedAt")
          /\ now - trackedPRs[n].lastReviewedAt = 48 * Hour
          /\ trackedPRs[n].reviewCount = 1
    /\ \E n \in DOMAIN trackedPRs \ call.result :
          now - trackedPRs[n].createdAt = 24 * Hour

\* C14: getPRsNeedingReview returns exactly the tracked pull requests with
\* reviewCount 0 or with no lastReviewedAt; one with a review counted and a
\* lastReviewedAt is not returned.
C14_NeedingReviewIsUnreviewed ==
    call.op = "getPRsNeedingReview" =>
        /\ call.result \subseteq DOMAIN trackedPRs
        /\ \A n \in DOMAIN trackedPRs :
              /\ trackedPRs[n].reviewCount = 0 => n \in call.result
              /\ ~Has(trackedPRs[n], "lastReviewedAt") => n \in call.result
              /\ (trackedPRs[n].reviewCount >= 1
                  /\ Has(trackedPRs[n], "lastReviewedAt")) => n \notin call.result

\* A record with lastReviewedAt and reviewCount 0 is returned, next to one
\* with lastReviewedAt and a review counted that is not.
C14_Witness ==
    /\ call.op = "getPRsNeedingReview"
    /\ \E n \in call.result :
          Has(trackedPRs[n], "lastReviewedAt") /\ trackedPRs[n].reviewCount = 0
    /\ \E n \in DOMAIN trackedPRs \ call.result : trackedPRs[n].reviewCount = 1

\* C20: formatPRAge gives "just opened" for an age below 1 hour, "<age>h old"
\* for an age of 1 to 23 hours and "<age / 24, rounded down>d old" from 24
\* hours on: 0 -> "just opened", 5 -> "5h old", 48 -> "2d old".
C20_FormatAgeTiers ==
    call.op = "formatPRAge" =>
        LET age == call.pr.age
            text == call.result
        IN /\ age < 1 => text = "just opened"
           /\ (1 <= age /\ age <= 23) => text = ToString(age) \o "h old"
           /\ age >= 24 =>
                \E days \in 1..age :
                    /\ 24 * days <= age /\ age < 24 * (days + 1)
                    /\ text = ToString(days) \o "d old"
           /\ age = 0 => text = "just opened"
           /\ age = 5 => text = "5h old"
           /\ age = 48 => text = "2d old"

\* formatPRAge was applied to a record that is exactly one day old.
C20_Witness ==
    call.op = "formatPRAge" /\ call.pr.age = 24 /\ call.result = "1d old"

\* C15: remove(number) leaves the store without the number and with every
\* other record as it was, so it changes nothing when the number is absent;
\* a track of the number right after its removal gives it a record made of
\* prData alone, with reviewCount 0 and no reviewers.
C15_RemoveThenTrackIsFresh ==
    [][/\ call'.op = "remove" =>
            /\ DOMAIN trackedPRs' = DOMAIN trackedPRs \ {call'.prNumber}
            /\ \A m \in DOMAIN trackedPRs' : trackedPRs'[m] = trackedPRs[m]
            /\ call'.prNumber \notin DOMAIN trackedPRs
                 => trackedPRs' = trackedPRs
       /\ (/\ call.op = "remove" /\ call'.op = "track"
           /\ call'.prData.number = call.prNumber) =>
            LET n == call.prNumber
                new == trackedPRs'[n]
            IN /\ n \notin DOMAIN trackedPRs
               /\ new.reviewCount = 0
               /\ new.reviewers = <<>>
               /\ \A f \in DOMAIN new \ {"reviewCount", "reviewers", "age"} :
                     f \in DOMAIN call'.prData /\ new[f] = call'.prData[f]]_vars

\* A number was tracked right after its removal, next to another tracked
\* number that holds reviews.
C15_Witness ==
    /\ call.op = "track" /\ call.follows = "remove"
    /\ trackedPRs[call.prData.number].reviewCount = 0
    /\ \E m \in DOMAIN trackedPRs \ {call.prData.number} :
          trackedPRs[m].reviewCount > 0

\* C16: updateStatus on a number that is not tracked changes nothing in the
\* store and creates no record; a track of that number afterwards starts at
\* reviewCount 0.
C16_UpdateOfUntrackedIsDropped ==
    [][/\ (call'.op = "updateStatus"
           /\ call'.prNumber \notin DOMAIN trackedPRs) =>
            trackedPRs' = trackedPRs
       /\ (/\ call.op = "updateStatus"
           /\ call.prNumber \notin DOMAIN trackedPRs
           /\ call'.op = "track"
           /\ call'.prData.number = call.prNumber) =>
            /\ trackedPRs'[call.prNumber].reviewCount = 0
            /\ ~Has(trackedPRs'[call.prNumber], "lastReviewedAt")]_vars

\* updateStatus was called with a review for a number that is not tracked,
\* while another number is.
C16_Witness ==
    /\ call.op = "updateStatus" /\ call.prNumber \notin DOMAIN trackedPRs
    /\ Has(call.updates, "reviewCount") /\ call.updates.reviewCount > 0
    /\ trackedPRs # <<>>

\* C17: in every reachable state no tracked pull request names a reviewer
\* twice, however often the same reviewer reviews it and whatever webhooks
\* and reconciliations have run.
C17_ReviewersAreASet ==
    \A n \in DOMAIN trackedPRs : NoDuplicate(trackedPRs[n].reviewers)

\* A reconciliation has upserted a pull request that one reviewer reviewed
\* twice.
C17_Witness ==
    /\ SyncSettled
    /\ \E n \in DOMAIN trackedPRs \cap OpenNonDraft :
          /\ Len(upstream[n].reviews) = 2
          /\ ReviewersOf(upstream[n].reviews) = {"alice"}
          /\ trackedPRs[n].reviewers = <<"alice">>

RECURSIVE SumOver(_, _)
SumOver(S, f) ==
    IF S = {} THEN 0
    ELSE LET x == CHOOSE y \in S : TRUE IN f[x] + SumOver(S \ {x}, f)

\* The merged pull requests of the repository, and the delay of the first
\* review of each.
MergedNumbers ==
    {n \in DOMAIN upstream :
        upstream[n].state = "closed" /\ Has(upstream[n], "merged_at")}
FirstReviewDelay ==
    [n \in {m \in MergedNumbers : upstream[m].reviews # <<>>} |->
        upstream[n].reviews[1].submitted_at - upstream[n].created_at]

\* C18: getPRMetrics fails exactly when the request for the closed list is
\* rejected; when the request for the reviews of a closed pull request is
\* rejected it still returns, with that pull request left out of the
\* reviewed count and the review time, or out of the reviewer counts; the
\* store is as it was in both cases.
C18_MetricsSkipFailedReviews ==
    [][call'.op = "getPRMetrics" =>
         LET fetch == call'.fetch
             result == call'.result
             timed == DOMAIN FirstReviewDelay \ fetch.firstRejected
             counted == MergedNumbers \ fetch.secondRejected
             reviewsBy(u) ==
                 [n \in counted |->
                     Cardinality({j \in 1..Len(upstream[n].reviews) :
                                     upstream[n].reviews[j].user = u})]
         IN /\ trackedPRs' = trackedPRs
            /\ result.status = "thrown" <=> fetch.listRejected
            /\ result.status = "returned" =>
                 /\ result.totalReviewed = Cardinality(timed)
                 /\ result.averageReviewTime = "N/A" <=> timed = {}
                 /\ \A u \in Users :
                       IF u \in DOMAIN result.topReviewers
                       THEN result.topReviewers[u] = SumOver(counted, reviewsBy(u))
                       ELSE SumOver(counted, reviewsBy(u)) = 0]_vars

\* getPRMetrics returned although both requests for the reviews of merged
\* pull requests that have reviews were rejected, with other merged pull
\* requests timed and counted, on a store that tracks a pull request.
C18_Witness ==
    /\ call.op = "getPRMetrics" /\ call.result.status = "returned"
    /\ call.fetch.firstRejected \cap DOMAIN FirstReviewDelay # {}
    /\ call.fetch.secondRejected \cap DOMAIN FirstReviewDelay # {}
    /\ call.fetch.firstRejected # call.fetch.secondRejected
    /\ call.result.totalReviewed > 0
    /\ DOMAIN call.result.topReviewers # {}
    /\ trackedPRs # <<>>

\* C19: the average review time getPRMetrics returns is the mean delay of
\* the first review over the sampled merged pull requests that have a
\* review: "<h>h" when that mean is at least h and less than h + 1 hours,
\* for h from 1 to 23, so "3h" for delays of 1, 3 and 5 hours; and "N/A"
\* when none of them has a review.
C19_AverageReviewTime ==
    (call.op = "getPRMetrics" /\ call.result.status = "returned") =>
        LET timed == DOMAIN FirstReviewDelay \ call.fetch.firstRejected
            total == SumOver(timed, FirstReviewDelay)
            count == Cardinality(timed)
            text == call.result.averageReviewTime
        IN /\ timed = {} => text = "N/A"
           /\ \A h \in 1..23 :
                 (/\ timed # {}
                  /\ h * 3600000 * count <= total
                  /\ total < (h + 1) * 3600000 * count)
                   => text = ToString(h) \o "h"
           /\ (/\ count = 3
               /\ {FirstReviewDelay[n] : n \in timed}
                    = {3600000, 3 * 3600000, 5 * 3600000})
                 => text = "3h"

\* getPRMetrics returned "3h" for three merged pull requests first reviewed
\* after 1, 3 and 5 hours.
C19_Witness ==
    /\ call.op = "getPRMetrics" /\ call.result.status = "returned"
    /\ call.fetch.firstRejected = {}
    /\ {FirstReviewDelay[n] : n \in DOMAIN FirstReviewDelay}
         = {Hour, 3 * Hour, 5 * Hour}
    /\ Cardinality(DOMAIN FirstReviewDelay) = 3
    /\ call.result.averageReviewTime = "3h"

\* C21: a pull request that a 'closed' webhook removed from the store is
\* not in the store again before an 'opened', 'reopened' or
\* 'ready_for_review' webhook for it is handled or a reconciliation
\* requests the open list anew; a reconciliation that got its list before
\* the removal does not put it back.
C21_ClosedStaysRemoved ==
    \A n \in run.closed : n \notin DOMAIN trackedPRs

\* C22: while a reconciliation waits for GitHub, when webhooks and queries
\* can run, the store shows nothing of that reconciliation yet: with no
\* webhook handled since it started, the store is the one it started from.
C22_SyncAppliesAtOnce ==
    (sync.pc \in {"list", "reviews", "track"} /\ run.clean) =>
        trackedPRs = run.pre[1]

\* C23: at any time at most one of the jobs (initial sync, periodic sync,
\* stale check, daily summary, manual stale check) is inside syncWithGitHub.
C23_OneSyncAtATime ==
    Cardinality({job \in Jobs : sync[job] = "list"}) <= 1

\* C24: a track by the 'opened', 'ready_for_review' or 'reopened' webhook
\* leaves a record made of the payload's prData, the age, and the reviewers
\* and reviewCount of the record it replaces: lastReviewedAt and lastUpdated
\* are not set, and getPRsNeedingReview returns the pull request, whatever
\* its reviewCount.
C24_WebhookTrackDropsLastReviewed ==
    [][(/\ call'.op = "pull_request"
        /\ call'.payload.action \in {"opened", "ready_for_review", "reopened"}) =>
         LET n == call'.payload.pull_request.number
             new == trackedPRs'[n]
         IN /\ DOMAIN new = DOMAIN PayloadPRData(call'.payload)
                               \cup {"reviewers", "age", "reviewCount"}
            /\ ~Has(new, "lastReviewedAt") /\ ~Has(new, "lastUpdated")
            /\ n \in DOMAIN trackedPRs =>
                 /\ new.reviewers = trackedPRs[n].reviewers
                 /\ new.reviewCount = trackedPRs[n].reviewCount
            /\ n \in getPRsNeedingReview(trackedPRs')]_vars

\* A reviewed pull request was tracked again by a 'reopened' webhook: its
\* count is kept, its lastReviewedAt is gone and it needs review.
C24_Witness ==
    /\ call.op = "pull_request" /\ call.payload.action = "reopened"
    /\ LET n == call.payload.pull_request.number
       IN /\ n \in DOMAIN trackedPRs
          /\ trackedPRs[n].reviewCount > 0
          /\ ~Has(trackedPRs[n], "lastReviewedAt")
          /\ n \in getPRsNeedingReview(trackedPRs)

\* C25: a reconciliation removes a number from the store only if that pull
\* request is not open on GitHub, however many pull requests are open there.
C25_SyncRemovesOnlyNotOpen ==
    [][\A n \in DOMAIN trackedPRs \ DOMAIN trackedPRs' :
          upstream[n].state # "open"]_vars

\* C26: handling a 'closed' event leaves the pull request out of the store,
\* merged or not, and calls notifyPRMerged exactly when the pull request was
\* merged.
C26_MergedNotificationOnlyIfMerged ==
    (call.op = "pull_request" /\ call.payload.action = "closed") =>
        LET pull_request == call.payload.pull_request
            merged == [call |-> "notifyPRMerged", number |-> pull_request.number]
        IN /\ pull_request.number \notin DOMAIN trackedPRs
           /\ merged \in Range(call.sent) <=> pull_request.merged

\* C27: in every reachable state the record stored under a number carries
\* that number, and its createdAt is the creation time it was tracked with,
\* which is the one GitHub holds for the pull request.
C27_KeyAndCreatedAtKept ==
    \A n \in DOMAIN trackedPRs :
        /\ trackedPRs[n].number = n
        /\ trackedPRs[n].createdAt = upstream[n].created_at

\* A tracked pull request whose record was written again after it was
\* created: its lastUpdated is later than the creation time it still carries.
C27_Witness ==
    \E n \in DOMAIN trackedPRs :
        /\ Has(trackedPRs[n], "lastUpdated")
        /\ trackedPRs[n].lastUpdated > upstream[n].created_at
        /\ trackedPRs[n].createdAt = upstream[n].created_at
        /\ trackedPRs[n].number = n

====
